---------------------------- MODULE Spec2Model ----------------------------
(***************************************************************************)
(* Model of the plugin self-update state machine (ai_diffusion/updates.py, *)
(* class AutoUpdate) and of the login / auth-token lifecycle               *)
(* (ai_diffusion/ui/login.py, class LoginWidget and check_token).          *)
(*                                                                         *)
(* Conventions                                                             *)
(*  - a Python str is a TLA+ string, except hash strings, which are        *)
(*    sequences of one-character strings so that case can be modelled;     *)
(*  - an optional value (dict key present or not, Optional[...]) is a      *)
(*    sequence of length 0 or 1;                                           *)
(*  - Python None stored in a str-typed attribute is the string NoneVal;   *)
(*  - the text of `error` is a sequence of string pieces (the pieces of    *)
(*    the f-string), the empty sequence being "".                          *)
(***************************************************************************)
EXTENDS Integers, Sequences, FiniteSets, TLC

VARIABLES
    \* ---- AutoUpdate (updates.py) ----
    state,            \* Property state
    latest_version,   \* Property latest_version
    error,            \* Property error
    package,          \* self._package : <<>> (None) or <<UpdatePackage>>
    current_version,  \* self.current_version
    token_expired,    \* self.token_expired
    plugin_dir,       \* contents of self.plugin_dir : file -> content
    tasks,            \* number of _run coroutines suspended at `await self._net.download`
    pc,               \* position of the code that is executing ("idle": none)
    frame,            \* locals of the executing code
    requests,         \* number of manifest requests issued (urlopen calls)
    escaped,          \* an exception left check()/run() uncaught
    obs,              \* what the last step did (inputs it drew, outcome)
    \* ---- LoginWidget / settings (login.py) ----
    settings,         \* in-memory settings: user_token, user_id, last_login_time, token_expiration
    disk,             \* settings as last persisted by settings.save()
    now,              \* int(time.time())
    login_button,     \* login_button.isEnabled()
    status_label,     \* status_label.text() (a tag for the message)
    inflight,         \* login requests issued and not yet answered
    emitted,          \* login_success has been emitted by the last reply handler
    lpc,              \* position inside on_login_finished ("idle": none)
    lframe,           \* locals of on_login_finished
    lobs              \* what the last login-side step did

varsU == <<state, latest_version, error, package, current_version, token_expired,
           plugin_dir, tasks, pc, frame, requests, escaped, obs>>
varsL == <<settings, disk, now, login_button, status_label, inflight, emitted,
           lpc, lframe, lobs>>
vars == <<varsU, varsL>>

-----------------------------------------------------------------------------
(* Bounds of the model *)

MaxRequests == 2     \* manifest requests explored per behaviour
MaxTasks == 1        \* _run coroutines suspended at the download at the same time

-----------------------------------------------------------------------------
(* Values *)

NoneVal == "<None>"
None == <<>>
Some(x) == <<x>>

UpdateState == {"unknown", "checking", "available", "latest", "downloading",
                "installing", "restart_required", "failed_check", "failed_update"}

UpdatePackage(v, u, s) == [version |-> v, url |-> u, sha256 |-> s]

InitialVersion == "1.0.0"
FallbackUrl == "https://antaai.oss-cn-hangzhou.aliyuncs.com/comfyui/krita/ai-diffusion-latest.zip"

\* Python truthiness of a str-or-None value
TruthyUnlessNone(x) == x # NoneVal
Truthy(x) == x # NoneVal /\ x # ""

\* str.lower() / str.upper() on a hex string held as a sequence of characters
LowerChar(c) ==
    CASE c = "A" -> "a" [] c = "B" -> "b" [] c = "C" -> "c"
      [] c = "D" -> "d" [] c = "E" -> "e" [] c = "F" -> "f"
      [] OTHER -> c
UpperChar(c) ==
    CASE c = "a" -> "A" [] c = "b" -> "B" [] c = "c" -> "C"
      [] c = "d" -> "D" [] c = "e" -> "E" [] c = "f" -> "F"
      [] OTHER -> c
Lower(s) == [i \in 1..Len(s) |-> LowerChar(s[i])]
Upper(s) == [i \in 1..Len(s) |-> UpperChar(s[i])]

\* The byte sequences a download can deliver.
Bytes == {"zipA", "junk"}

\* hashlib.sha256(data).hexdigest(): lower-case hex, distinct for distinct data
\* (digests shortened to four hex digits).
Sha256Hex(data) ==
    CASE data = "zipA" -> <<"3", "e", "b", "0">>
      [] data = "junk" -> <<"b", "a", "7", "8">>

\* Files of the installed plugin.
FileSet == {"f1", "f2", "f3"}

\* zipfile.ZipFile(archive).extractall(): the files an archive holds
\* (None: not a zip archive).  zipA does not hold f3.
Unzip(data) ==
    CASE data = "zipA" -> Some([f \in {"f1", "f2"} |-> "A"])
      [] data = "junk" -> None


-----------------------------------------------------------------------------
(* The manifest: the JSON object served by the manifest endpoint.  Each key *)
(* is absent (None) or present with a value (Some(v)).                      *)

Manifest(v, u, s, e) == [version |-> v, url |-> u, sha256 |-> s, expired |-> e]

ManifestVersions == {None, Some(""), Some("1.0.0"), Some("2.0.0")}
ManifestUrls == {None, Some(""), Some("https://host/pkg.zip")}
ManifestHashes == {None, Some(<<>>), Some(Sha256Hex("zipA")),
                   Some(Upper(Sha256Hex("zipA")))}
\* a JSON value of "expired": an integer, or something that is not one
JsonInt(n) == [type |-> "int", val |-> n]
JsonStr(n) == [type |-> "str", val |-> n]
ManifestExpired == {None, Some(JsonInt(3600)), Some(JsonStr(1))}

Manifests == {Manifest(v, u, s, e) : v \in ManifestVersions, u \in ManifestUrls,
                                     s \in ManifestHashes, e \in ManifestExpired}

\* `key in result`
Has(result, key) == result[key] # None
\* result.get("version"): the value or None
GetVersion(result) == IF Has(result, "version") THEN result.version[1] ELSE NoneVal

\* if result['url'] == "": result['url'] = <fallback>      (url key present)
UrlNotSubstituted(result) == result
UrlSubstituted(result) ==
    IF result.url[1] = "" THEN [result EXCEPT !.url = Some(FallbackUrl)] ELSE result

\* if (expired := result.get("expired")) and isinstance(expired, int): ... else 0
TokenExpiredOf(result) ==
    IF /\ Has(result, "expired")
       /\ result.expired[1].type = "int"
       /\ result.expired[1].val # 0
    THEN result.expired[1].val
    ELSE 0

-----------------------------------------------------------------------------
(* Exceptions and _handle_errors *)

Exc(type, msg) == [type |-> type, msg |-> msg]

\* the classes `except Exception` catches
ExceptionClasses == {"URLError", "JSONDecodeError", "KeyError", "AssertionError",
                     "RuntimeError", "OSError", "BadZipFile", "NetworkError"}
CaughtOnlyRuntimeError(e) == e.type = "RuntimeError"
Caught(e) == e.type \in ExceptionClasses

ErrorStateOf(op) == IF op = "check" THEN "failed_check" ELSE "failed_update"
MessageOf(op) ==
    IF op = "check" THEN "Failed to check for new plugin version"
    ELSE "Failed to update plugin"
\* f"{message}: {e}"
ErrorText(message, e) == <<message, ": ", e.msg>>

\* locals of the executing code
EmptyFrame == [op |-> "", reply |-> None, result |-> None, exc |-> None,
               text |-> <<>>, data |-> ""]
\* the record of the last step
EmptyObs == [op |-> "", step |-> "", start |-> "", manifest |-> None, raised |-> "",
             data |-> "", hash |-> <<>>, io_failed |-> FALSE]
\* the keys of a served manifest that decide the outcome of check()
Keys(m) == [version |-> m.version, url |-> m.url, sha256 |-> m.sha256]
KeysOf(manifest) == IF manifest = None THEN None ELSE Some(Keys(manifest[1]))

\* what the manifest endpoint answers to a request: a manifest, or the
\* exception json.load(urlopen(...)) raises when the request or the parse fails
FetchErrors == {Exc("URLError", "<urlopen error>"), Exc("JSONDecodeError", "Expecting value")}
Replies == [manifest : {Some(m) : m \in Manifests}, exc : {None}]
           \cup [manifest : {None}, exc : {Some(e) : e \in FetchErrors}]

\* an exception raised inside func(): control passes to the except clause
Raise(e) ==
    /\ pc' = "handle_error"
    /\ frame' = [frame EXCEPT !.exc = Some(e)]
\* the operation returns: its locals are gone
Return ==
    /\ pc' = "idle"
    /\ frame' = EmptyFrame

-----------------------------------------------------------------------------
(* AutoUpdate.check / AutoUpdate._check *)

\* line 74: if self.state is UpdateState.restart_required: return
ReturnsEarlyNever(st) == FALSE
ReturnsEarly(st) == st = "restart_required"

\* check(): the call, up to the first property assignment.  `reply` is what
\* the manifest endpoint answers at the time of the call (read by the request,
\* if one is made).
CheckCall ==
    /\ pc = "idle"
    /\ requests < MaxRequests
    /\ \E reply \in Replies :
          /\ obs' = [EmptyObs EXCEPT !.op = "check", !.step = "call", !.start = state,
                                     !.manifest = KeysOf(reply.manifest)]
          /\ IF ReturnsEarly(state)
             THEN UNCHANGED <<state, pc, frame>>
             ELSE /\ state' = "checking"
                  /\ pc' = "check_fetch"
                  /\ frame' = [EmptyFrame EXCEPT !.op = "check", !.reply = Some(reply)]
    /\ UNCHANGED <<latest_version, error, package, current_version, token_expired,
                   plugin_dir, tasks, requests, escaped>>
    /\ UNCHANGED varsL

\* lines 85-97 once the manifest is fetched: result['url'] (KeyError when the
\* key is absent), the fallback url, token_expired, latest_version
CheckManifest(m) ==
    IF ~Has(m, "url")
    THEN /\ Raise(Exc("KeyError", "'url'"))
         /\ UNCHANGED <<token_expired, latest_version>>
    ELSE LET result == UrlSubstituted(m) IN
         /\ token_expired' = TokenExpiredOf(result)
         /\ latest_version' = GetVersion(result)
         /\ pc' = "check_decide"
         /\ frame' = [frame EXCEPT !.result = Some(result)]

\* the request fails
CheckFetchFails ==
    /\ pc = "check_fetch"
    /\ requests' = requests + 1
    /\ frame.reply[1].exc # None
    /\ Raise(frame.reply[1].exc[1])
    /\ obs' = [obs EXCEPT !.step = "fetch_failed"]
    /\ UNCHANGED <<state, latest_version, error, package, current_version,
                   token_expired, plugin_dir, tasks, escaped>>
    /\ UNCHANGED varsL

\* the request returns a manifest
CheckFetch ==
    /\ pc = "check_fetch"
    /\ requests' = requests + 1
    /\ frame.reply[1].manifest # None
    /\ CheckManifest(frame.reply[1].manifest[1])
    /\ obs' = [obs EXCEPT !.step = "fetched"]
    /\ UNCHANGED <<state, error, package, current_version, plugin_dir, tasks, escaped>>
    /\ UNCHANGED varsL

\* lines 111-115: the package built from the manifest
PackageOf(result) ==
    UpdatePackage(GetVersion(result), result.url[1], result.sha256[1])

\* lines 98-116: the branches on latest_version; a failing branch sets state
\* first and error next
CheckBranches ==
    LET result == frame.result[1] IN
    IF ~Truthy(latest_version)
    THEN /\ state' = "failed_check"
         /\ pc' = "check_set_error"
         /\ frame' = [frame EXCEPT !.text = <<"Failed to retrieve plugin update information">>]
         /\ UNCHANGED package
    ELSE IF latest_version = current_version
    THEN /\ state' = "latest"
         /\ Return
         /\ UNCHANGED package
    ELSE IF ~Has(result, "url") \/ ~Has(result, "sha256")
    THEN /\ state' = "failed_check"
         /\ pc' = "check_set_error"
         /\ frame' = [frame EXCEPT !.text = <<"Plugin update package is incomplete">>]
         /\ UNCHANGED package
    ELSE /\ package' = Some(PackageOf(result))
         /\ state' = "available"
         /\ Return

CheckDecide ==
    /\ pc = "check_decide"
    /\ CheckBranches
    /\ obs' = [obs EXCEPT !.step = "decided"]
    /\ UNCHANGED <<latest_version, error, current_version, token_expired,
                   plugin_dir, tasks, requests, escaped>>
    /\ UNCHANGED varsL

\* lines 101, 108: self.error = "..."
CheckSetError ==
    /\ pc = "check_set_error"
    /\ error' = frame.text
    /\ Return
    /\ obs' = [obs EXCEPT !.step = "error_set"]
    /\ UNCHANGED <<state, latest_version, package, current_version, token_expired,
                   plugin_dir, tasks, requests, escaped>>
    /\ UNCHANGED varsL

-----------------------------------------------------------------------------
(* AutoUpdate._handle_errors: the except clause *)

\* lines 164-166: the exception is caught and error is set
HandleError ==
    /\ pc = "handle_error"
    /\ LET e == frame.exc[1] IN
       IF Caught(e)
       THEN /\ error' = ErrorText(MessageOf(frame.op), e)
            /\ pc' = "handle_state"
            /\ UNCHANGED <<escaped, frame>>
       ELSE /\ escaped' = TRUE
            /\ Return
            /\ UNCHANGED error
    /\ obs' = [obs EXCEPT !.step = "handled", !.raised = frame.exc[1].type]
    /\ UNCHANGED <<state, latest_version, package, current_version, token_expired,
                   plugin_dir, tasks, requests>>
    /\ UNCHANGED varsL

\* line 167: self.state = error_state
HandleState ==
    /\ pc = "handle_state"
    /\ state' = ErrorStateOf(frame.op)
    /\ Return
    /\ obs' = [obs EXCEPT !.step = "failed"]
    /\ UNCHANGED <<latest_version, error, package, current_version, token_expired,
                   plugin_dir, tasks, requests, escaped>>
    /\ UNCHANGED varsL

-----------------------------------------------------------------------------
(* AutoUpdate.run / AutoUpdate._run *)

\* line 133: sha256 != self._package.sha256 and self._package.sha256 != ""
HashMismatchAlways(sha256, declared) == sha256 # declared
HashMismatch(sha256, declared) == sha256 # declared /\ declared # <<>>

\* line 124: assert self.latest_version and self._package
RunAsserts == Truthy(latest_version) /\ package # None

\* run(): lines 124-130, up to the suspension at `await self._net.download(url)`.
\* TemporaryDirectory() can fail with an OSError.
RunCall ==
    /\ pc = "idle"
    /\ tasks < MaxTasks
    /\ obs' = [EmptyObs EXCEPT !.op = "run", !.step = "call", !.start = state]
    /\ \E tmp_ok \in BOOLEAN :
          IF ~RunAsserts
          THEN /\ tmp_ok
               /\ pc' = "handle_error"
               /\ frame' = [EmptyFrame EXCEPT !.op = "run",
                                              !.exc = Some(Exc("AssertionError", ""))]
               /\ UNCHANGED <<state, tasks>>
          ELSE IF ~tmp_ok
          THEN /\ pc' = "handle_error"
               /\ frame' = [EmptyFrame EXCEPT !.op = "run",
                                              !.exc = Some(Exc("OSError", "No space left on device"))]
               /\ UNCHANGED <<state, tasks>>
          ELSE /\ state' = "downloading"
               /\ tasks' = tasks + 1
               /\ UNCHANGED <<pc, frame>>
    /\ UNCHANGED <<latest_version, error, package, current_version, token_expired,
                   plugin_dir, requests, escaped>>
    /\ UNCHANGED varsL

\* the download fails: self._net.download raises
RunDownloadFails ==
    /\ pc = "idle"
    /\ tasks > 0
    /\ tasks' = tasks - 1
    /\ pc' = "handle_error"
    /\ frame' = [EmptyFrame EXCEPT !.op = "run",
                                   !.exc = Some(Exc("NetworkError", "Connection refused"))]
    /\ obs' = [EmptyObs EXCEPT !.op = "run", !.step = "download_failed", !.start = state]
    /\ UNCHANGED <<state, latest_version, error, package, current_version,
                   token_expired, plugin_dir, requests, escaped>>
    /\ UNCHANGED varsL

\* lines 132-140: the download delivered archive_data; the hash check, the
\* write of the archive into the temporary directory, state = installing
RunVerify ==
    /\ pc = "idle"
    /\ tasks > 0
    /\ \E archive_data \in Bytes, write_ok \in BOOLEAN :
          LET sha256 == Sha256Hex(archive_data)
              declared == package[1].sha256
              raised == IF HashMismatch(sha256, declared)
                        THEN Some(Exc("RuntimeError",
                                      "Downloaded plugin package is corrupted or incomplete"))
                        ELSE IF ~write_ok
                        THEN Some(Exc("OSError", "No space left on device"))
                        ELSE None
          IN
          /\ HashMismatch(sha256, declared) => write_ok   \* the write is not reached
          /\ tasks' = tasks - 1
          /\ obs' = [EmptyObs EXCEPT !.op = "run", !.step = "verify", !.start = state,
                                     !.data = archive_data, !.hash = declared,
                                     !.io_failed = ~write_ok]
          /\ IF raised # None
             THEN /\ pc' = "handle_error"
                  /\ frame' = [EmptyFrame EXCEPT !.op = "run", !.exc = raised]
                  /\ UNCHANGED state
             ELSE /\ state' = "installing"
                  /\ pc' = "run_install"
                  /\ frame' = [EmptyFrame EXCEPT !.op = "run", !.data = archive_data]
    /\ UNCHANGED <<latest_version, error, package, current_version, token_expired,
                   plugin_dir, requests, escaped>>
    /\ UNCHANGED varsL

\* shutil.copytree(source_dir, plugin_dir, dirs_exist_ok=True): every file of
\* the source is copied over the destination except those whose copy fails
CopyTree(source, dest, failed) ==
    [f \in DOMAIN dest \cup (DOMAIN source \ failed) |->
        IF f \in DOMAIN source \ failed THEN source[f] ELSE dest[f]]

\* lines 143-149: extract, copy over the plugin directory, restart_required.
\* extractall raises on a bad archive or an I/O error; copytree copies what it
\* can and raises shutil.Error (an OSError) when some copies failed.
RunInstall ==
    /\ pc = "run_install"
    /\ LET source == Unzip(frame.data) IN
       IF source = None
       THEN /\ Raise(Exc("BadZipFile", "File is not a zip file"))
            /\ obs' = [obs EXCEPT !.step = "extract_failed"]
            /\ UNCHANGED <<state, current_version, plugin_dir>>
       ELSE \E extract_ok \in BOOLEAN, failed \in SUBSET DOMAIN source[1] :
            IF ~extract_ok
            THEN /\ failed = {}
                 /\ Raise(Exc("OSError", "No space left on device"))
                 /\ obs' = [obs EXCEPT !.step = "extract_failed"]
                 /\ UNCHANGED <<state, current_version, plugin_dir>>
            ELSE /\ plugin_dir' = CopyTree(source[1], plugin_dir, failed)
                 /\ IF failed # {}
                    THEN /\ Raise(Exc("OSError", "No space left on device"))
                         /\ obs' = [obs EXCEPT !.step = "copy_failed"]
                         /\ UNCHANGED <<state, current_version>>
                    ELSE /\ current_version' = latest_version
                         /\ state' = "restart_required"
                         /\ Return
                         /\ obs' = [obs EXCEPT !.step = "installed"]
    /\ UNCHANGED <<latest_version, error, package, token_expired, tasks, requests, escaped>>
    /\ UNCHANGED varsL

-----------------------------------------------------------------------------
InitU ==
    /\ state = "unknown"
    /\ latest_version = ""
    /\ error = <<>>
    /\ package = None
    /\ current_version = InitialVersion
    /\ token_expired = 0
    /\ plugin_dir = [f \in FileSet |-> "old"]
    /\ tasks = 0
    /\ pc = "idle"
    /\ frame = EmptyFrame
    /\ requests = 0
    /\ escaped = FALSE
    /\ obs = EmptyObs

-----------------------------------------------------------------------------
(* Login: LoginWidget and check_token (ui/login.py), settings *)

MaxTime == 5         \* the clock runs from 1 to MaxTime
MaxInflight == 2     \* login requests outstanding at the same time
ConfiguredTTL == 2   \* settings.token_expiration as configured, in clock ticks

Tokens == {"", "T1", "T2"}
Workers == {"W1", "W2"}

\* the body of a login response that parses as a JSON object: `code`, `data`
\* and `msg` are absent (None) or present; data is an object whose keys `api`
\* and `worker_id` are absent or present
LoginData == [api : {None} \cup {Some(t) : t \in Tokens},
              worker_id : {None} \cup {Some(w) : w \in Workers}]
LoginReplies ==
    [kind : {"network_error", "invalid_json"}, code : {None}, data : {None}, msg : {None}]
    \cup [kind : {"json"}, code : {None, Some(200), Some(403)},
          data : {None} \cup {Some(d) : d \in LoginData},
          msg : {None, Some("bad credentials")}]

\* line 113: api_code == 200
SuccessCodeAny(code) == code # None
SuccessCode(code) == code = Some(200)

\* `data and "api" in data` (an object without keys is falsy)
HasToken(data) == data # None /\ data[1].api # None

NoLobs == [op |-> "", step |-> "", reply |-> None, result |-> FALSE, raised |-> FALSE,
           token |-> "", last_login_time |-> 0, expiration |-> 0, now |-> 0,
           after_false |-> FALSE, prev_false |-> FALSE]
\* a check_token() has returned False and no token was saved since
SinceFalse == lobs.after_false

\* handle_login: the click on the (enabled) login button
HandleLogin ==
    /\ lpc = "idle"
    /\ login_button
    /\ \E username \in {"", "u"}, password \in {"", "p"} :
          IF username = "" \/ password = ""
          THEN /\ status_label' = "empty_credentials"
               /\ UNCHANGED <<login_button, inflight>>
          ELSE /\ inflight < MaxInflight
               /\ status_label' = "logging_in"
               /\ login_button' = FALSE
               /\ inflight' = inflight + 1
    /\ lobs' = [NoLobs EXCEPT !.op = "handle_login", !.after_false = SinceFalse]
    /\ UNCHANGED <<settings, disk, now, emitted, lpc, lframe>>
    /\ UNCHANGED varsU

\* reset()
Reset ==
    /\ lpc = "idle"
    /\ status_label' = ""
    /\ login_button' = TRUE
    /\ lobs' = [NoLobs EXCEPT !.op = "reset", !.after_false = SinceFalse]
    /\ UNCHANGED <<settings, disk, now, inflight, emitted, lpc, lframe>>
    /\ UNCHANGED varsU

\* save_token(token, worker_id): lines 131-134
SaveTokenUnsaved(token, worker_id) ==
    /\ settings' = [settings EXCEPT !.user_token = token, !.user_id = worker_id,
                                    !.last_login_time = now]
    /\ UNCHANGED disk
SaveToken(token, worker_id) ==
    /\ settings' = [settings EXCEPT !.user_token = token, !.user_id = worker_id,
                                    !.last_login_time = now]
    /\ disk' = settings'

\* on_login_finished(reply), lines 92-119 and 121-127: up to the emission of
\* login_success, or to the return when there is none
OnLoginFinished ==
    /\ lpc = "idle"
    /\ inflight > 0
    /\ inflight' = inflight - 1
    /\ login_button' = TRUE
    /\ emitted' = FALSE
    /\ \E reply \in LoginReplies :
          LET Obs(step, raised) ==
                  [NoLobs EXCEPT !.op = "login_finished", !.step = step,
                                 !.reply = Some(reply), !.raised = raised,
                                 !.now = now, !.after_false = SinceFalse]
          IN
          IF reply.kind = "network_error"
          THEN /\ status_label' = "network_error"
               /\ lobs' = Obs("returned", FALSE)
               /\ UNCHANGED <<settings, disk, lpc, lframe>>
          ELSE IF reply.kind = "invalid_json"
          THEN /\ status_label' = "invalid_json"
               /\ lobs' = Obs("returned", FALSE)
               /\ UNCHANGED <<settings, disk, lpc, lframe>>
          ELSE IF SuccessCode(reply.code)
          THEN IF HasToken(reply.data)
               THEN IF reply.data[1].worker_id = None
                    THEN \* data["worker_id"] raises KeyError, which nothing catches
                         /\ lobs' = Obs("returned", TRUE)
                         /\ UNCHANGED <<settings, disk, status_label, lpc, lframe>>
                    ELSE /\ SaveToken(reply.data[1].api[1], reply.data[1].worker_id[1])
                         /\ status_label' = "success"
                         /\ lpc' = "emit"
                         /\ lframe' = Some([token |-> reply.data[1].api[1],
                                            worker_id |-> reply.data[1].worker_id[1]])
                         /\ lobs' = [Obs("saved", FALSE) EXCEPT !.after_false = FALSE]
               ELSE /\ status_label' = "no_token"
                    /\ lobs' = Obs("returned", FALSE)
                    /\ UNCHANGED <<settings, disk, lpc, lframe>>
          ELSE /\ status_label' = IF reply.msg # None THEN reply.msg[1] ELSE "failed_code"
               /\ lobs' = Obs("returned", FALSE)
               /\ UNCHANGED <<settings, disk, lpc, lframe>>
    /\ UNCHANGED now
    /\ UNCHANGED varsU

\* line 120: self.login_success.emit(), then the return
EmitLoginSuccess ==
    /\ lpc = "emit"
    /\ emitted' = TRUE
    /\ lpc' = "idle"
    /\ lframe' = None
    /\ lobs' = [lobs EXCEPT !.step = "emitted"]
    /\ UNCHANGED <<settings, disk, now, login_button, status_label, inflight>>
    /\ UNCHANGED varsU

\* line 153: int(time.time()) > int(last_login_time) + expiration
ExpiredAtDeadline(time, last_login_time, expiration) == time >= last_login_time + expiration
Expired(time, last_login_time, expiration) == time > last_login_time + expiration

\* check_token()
CheckToken ==
    /\ lpc = "idle"
    /\ LET token == settings.user_token
           expiration == settings.token_expiration
           last_login_time == settings.last_login_time
           Obs(result) ==
               [NoLobs EXCEPT !.op = "check_token", !.result = result,
                              !.token = token, !.last_login_time = last_login_time,
                              !.expiration = expiration, !.now = now,
                              !.after_false = SinceFalse \/ ~result,
                              !.prev_false = SinceFalse]
       IN
       IF token = "" \/ last_login_time = 0
       THEN /\ lobs' = Obs(FALSE)
            /\ UNCHANGED <<settings, disk>>
       ELSE IF Expired(now, last_login_time, expiration)
       THEN /\ settings' = [settings EXCEPT !.user_token = "", !.token_expiration = 0]
            /\ disk' = settings'
            /\ lobs' = Obs(FALSE)
       ELSE /\ lobs' = Obs(TRUE)
            /\ UNCHANGED <<settings, disk>>
    /\ UNCHANGED <<now, login_button, status_label, inflight, emitted, lpc, lframe>>
    /\ UNCHANGED varsU

\* the wall clock advances
Tick ==
    /\ lpc = "idle"
    /\ now < MaxTime
    /\ now' = now + 1
    /\ UNCHANGED <<settings, disk, login_button, status_label, inflight, emitted,
                   lpc, lframe, lobs>>
    /\ UNCHANGED varsU

InitL ==
    /\ settings = [user_token |-> "", user_id |-> "", last_login_time |-> 0,
                   token_expiration |-> ConfiguredTTL]
    /\ disk = settings
    /\ now = 1
    /\ login_button = TRUE
    /\ status_label = ""
    /\ inflight = 0
    /\ emitted = FALSE
    /\ lpc = "idle"
    /\ lframe = None
    /\ lobs = NoLobs

Init == InitU /\ InitL

NextUpdate ==
    \/ CheckCall
    \/ CheckFetchFails
    \/ CheckFetch
    \/ CheckDecide
    \/ CheckSetError
    \/ HandleError
    \/ HandleState
    \/ RunCall
    \/ RunDownloadFails
    \/ RunVerify
    \/ RunInstall

SpecUpdate == Init /\ [][NextUpdate]_vars

NextLogin ==
    \/ HandleLogin
    \/ Reset
    \/ OnLoginFinished
    \/ EmitLoginSuccess
    \/ CheckToken
    \/ Tick

SpecLogin == Init /\ [][NextLogin]_vars

-----------------------------------------------------------------------------
(* Properties of check() and run() *)

\* check() has returned (its last step is the one obs records)
CheckReturned == pc = "idle" /\ obs.op = "check"
\* the manifest the endpoint served during the last check() call
Served == obs.manifest[1]
ServedManifest == obs.manifest # None
VersionMissing(m) == m.version = None \/ m.version = Some("")

\* C1: check() called while state is restart_required is a no-op: no request
\* is issued (the request counter stays and no fetch is pending) and state,
\* latest_version, error, the retained package, current_version and
\* token_expired are all unchanged.
C1_CheckIsNoopWhenRestartRequired ==
    [][(pc = "idle" /\ state = "restart_required"
        /\ obs'.op = "check" /\ obs'.step = "call")
       => (/\ pc' = "idle"
           /\ UNCHANGED <<state, latest_version, error, package, current_version,
                          token_expired, requests, plugin_dir, tasks>>)]_vars

C1_Witness ==
    /\ CheckReturned /\ obs.step = "call" /\ obs.start = "restart_required"
    /\ state = "restart_required"

\* C2: for every served manifest whose version equals current_version (here:
\* those that carry the url key; the others are the subject of C5), check()
\* ends in the up-to-date state and no package is retained.
C2_SameVersionEndsLatestWithoutPackage ==
    (/\ CheckReturned /\ ServedManifest
     /\ obs.start # "restart_required"
     /\ Served.version = Some(current_version)
     /\ Served.url # None)
    => (state = "latest" /\ package = None)

\* C3 as claimed: for every served manifest with a non-empty version other than
\* current_version and with the url and sha256 keys, check() ends in available
\* with latest_version and the package taken from the manifest -- whatever
\* state check() was called in.
C3_Original ==
    (/\ CheckReturned /\ ServedManifest
     /\ ~VersionMissing(Served)
     /\ Served.version # Some(current_version)
     /\ Served.url # None /\ Served.sha256 # None)
    => (/\ state = "available"
        /\ latest_version = Served.version[1]
        /\ package = Some(UpdatePackage(
               Served.version[1],
               IF Served.url[1] = "" THEN FallbackUrl ELSE Served.url[1],
               Served.sha256[1])))

\* C3 (amended): the same, for a check() called in any state other than
\* restart_required.
C3_NewVersionEndsAvailable ==
    (/\ CheckReturned /\ ServedManifest
     /\ obs.start # "restart_required"
     /\ ~VersionMissing(Served)
     /\ Served.version # Some(current_version)
     /\ Served.url # None /\ Served.sha256 # None)
    => (/\ state = "available"
        /\ latest_version = Served.version[1]
        /\ package = Some(UpdatePackage(
               Served.version[1],
               IF Served.url[1] = "" THEN FallbackUrl ELSE Served.url[1],
               Served.sha256[1])))

C3_Witness ==
    /\ CheckReturned /\ ServedManifest
    /\ Served = [version |-> Some("2.0.0"), url |-> Some(""), sha256 |-> Some(<<>>)]
    /\ state = "available"
    /\ package[1].url = FallbackUrl

\* C4: for every served manifest in which version is missing or empty, check()
\* called in a state other than restart_required ends in failed_check with a
\* non-empty error.
C4_MissingVersionEndsFailedCheck ==
    (/\ CheckReturned /\ ServedManifest
     /\ obs.start # "restart_required"
     /\ VersionMissing(Served))
    => (state = "failed_check" /\ error # <<>>)

C4_Witness ==
    /\ CheckReturned /\ ServedManifest
    /\ Served.version = Some("") /\ Served.url # None
    /\ state = "failed_check"
    /\ error = <<"Failed to retrieve plugin update information">>

\* C5: a served manifest without the url key, with a version other than
\* current_version and with the sha256 key, makes check() end in available with
\* the fallback url in the package.
C5_AbsentUrlFallsBack ==
    (/\ CheckReturned /\ ServedManifest
     /\ obs.start # "restart_required"
     /\ ~VersionMissing(Served)
     /\ Served.version # Some(current_version)
     /\ Served.url = None /\ Served.sha256 # None)
    => (/\ state = "available"
        /\ package # None
        /\ package[1].url = FallbackUrl)

\* the hash check of run() has just been made on downloaded data obs.data
\* against the declared hash obs.hash, and no I/O error hit the staging write
Verified == obs.op = "run" /\ obs.step = "verify" /\ ~obs.io_failed

\* C6: for downloaded bytes B and a declared hash H # "", run() reaches
\* installing iff the hex digest of B equals H compared case-insensitively.
C6_InstallingIffHashEqualIgnoringCase ==
    (Verified /\ obs.hash # <<>>)
    => ((state = "installing") <=> (Lower(Sha256Hex(obs.data)) = Lower(obs.hash)))

\* C7: when the package's sha256 is "", run() goes from downloading to
\* installing for every downloaded byte sequence, whatever its digest.
C7_EmptyHashSkipsVerification ==
    (Verified /\ obs.hash = <<>>)
    => (state = "installing" /\ pc = "run_install")

C7_Witness ==
    /\ Verified /\ obs.hash = <<>> /\ obs.data = "junk"
    /\ state = "installing"

\* C8: no failure inside check() or run() reaches the caller: nothing escapes,
\* and when the operation returns after an exception was raised in it, state
\* is failed_check (check) or failed_update (run) and error is non-empty.
C8_FailuresAreCaughtAndRecorded ==
    /\ ~escaped
    /\ (pc = "idle" /\ obs.raised # "")
       => (/\ obs.step = "failed"
           /\ obs.op = "check" => state = "failed_check"
           /\ obs.op = "run" => state = "failed_update"
           /\ error # <<>>)

C8_Witness ==
    /\ pc = "idle" /\ obs.op = "run" /\ obs.raised = "RuntimeError"
    /\ state = "failed_update"
    /\ error = <<"Failed to update plugin", ": ",
                 "Downloaded plugin package is corrupted or incomplete">>

-----------------------------------------------------------------------------
(* Properties of the login and of check_token *)

\* C12: run() called in a state other than available or failed_update fails
\* fast: it does not enter downloading, starts no download, and in particular
\* does not leave restart_required.
C12_RunOnlyFromAvailableOrFailedUpdate ==
    (/\ obs.op = "run" /\ obs.step = "call"
     /\ obs.start \in {"unknown", "latest", "failed_check", "restart_required"})
    => (state # "downloading" /\ pc = "handle_error" /\ tasks = 0)

\* C13: a step of run() that raises, and so ends in failed_update, leaves the
\* contents of the plugin directory as they were.
C13_FailedUpdateLeavesPluginDir ==
    [][(pc' = "handle_error" /\ frame'.op = "run") => plugin_dir' = plugin_dir]_vars

\* C14: in restart_required the installed version is the latest known
\* version, and both are the version of the package that was applied.
C14_RestartRequiredVersionsAgree ==
    state = "restart_required"
    => (/\ current_version = latest_version
        /\ package # None
        /\ package[1].version = current_version)

\* C15: when run() has ended, in restart_required or in failed_update, the
\* package is discarded.
C15_PackageDiscardedAfterRun ==
    (pc = "idle" /\ obs.op = "run" /\ obs.step \in {"installed", "failed"})
    => package = None

\* C16: whenever state is failed_check or failed_update, error is the
\* non-empty message of that failure.
C16_FailedStateHasItsError ==
    /\ state = "failed_check"
       => (error # <<>> /\ error[1] # MessageOf("run"))
    /\ state = "failed_update"
       => (error # <<>> /\ error[1] = MessageOf("run"))

\* C9: check_token() returns true iff, at the call, the stored token is not ""
\* and now <= last_login_time + token_expiration; after a call that returned
\* false the stored token reads as empty, and until a login saves a token it
\* stays empty and every later call returns false.
C9_TokenValidityLaw ==
    /\ lobs.op = "check_token"
       => /\ lobs.result <=> (/\ lobs.token # ""
                              /\ lobs.now <= lobs.last_login_time + lobs.expiration)
          /\ lobs.prev_false => ~lobs.result
    /\ SinceFalse => settings.user_token = ""

C9_Witness ==
    /\ lobs.op = "check_token" /\ lobs.prev_false /\ ~lobs.result
    /\ settings.last_login_time # 0
    /\ settings.token_expiration = 0

\* the last reply handled was a code-200 response whose data holds api and worker_id
WellFormedLogin ==
    /\ lobs.op = "login_finished"
    /\ lobs.reply # None
    /\ lobs.reply[1].kind = "json"
    /\ lobs.reply[1].code = Some(200)
    /\ lobs.reply[1].data # None
    /\ lobs.reply[1].data[1].api # None
    /\ lobs.reply[1].data[1].worker_id # None

\* C10: a code-200 response with data {api = T, worker_id = W} stores token T,
\* subject W and last_login_time = now in the settings and has saved them when
\* login_success is emitted (and they are still so when the handler returns).
C10_LoginStoresAndSavesBeforeSignal ==
    WellFormedLogin
    => /\ settings.user_token = lobs.reply[1].data[1].api[1]
       /\ settings.user_id = lobs.reply[1].data[1].worker_id[1]
       /\ settings.last_login_time = lobs.now
       /\ disk = settings
       /\ \/ lpc = "emit" /\ ~emitted
          \/ lpc = "idle" /\ emitted

C10_Witness ==
    /\ WellFormedLogin
    /\ lpc = "emit" /\ ~emitted
    /\ disk.user_token = "T1" /\ disk.user_id = "W1" /\ disk.last_login_time = now

\* the reply is one of the unsuccessful outcomes: a transport error, a body
\* that is not JSON, a code other than 200, or a code-200 body without a token
Unsuccessful(reply) ==
    \/ reply.kind # "json"
    \/ reply.code # Some(200)
    \/ reply.data = None
    \/ reply.data[1].api = None

\* C11: a reply handler that handles an unsuccessful outcome leaves
\* user_token, user_id, last_login_time and token_expiration as they were, in
\* memory and on disk, and does not emit login_success.
C11_FailedLoginLeavesSession ==
    [][(/\ lobs'.op = "login_finished"
        /\ lobs'.step \in {"returned", "saved"}
        /\ Unsuccessful(lobs'.reply[1]))
       => (settings' = settings /\ disk' = disk /\ ~emitted' /\ lpc' = "idle")]_vars

C11_Witness ==
    /\ lobs.op = "login_finished" /\ lobs.step = "returned"
    /\ lobs.reply[1].code = Some(403)
    /\ lobs.reply[1].msg = Some("bad credentials")
    /\ status_label = "bad credentials"
    /\ settings.user_token = "T1" /\ settings.user_id = "W1"
    /\ ~emitted

\* C17: when check_token() detects expiry (it returns False for a stored,
\* non-empty token) it resets the token to "" and last_login_time to 0 and
\* persists, which keeps "token empty" and "last_login_time = 0" equivalent.
C17_ExpiryResetsTokenAndIssuedAt ==
    (lobs.op = "check_token" /\ ~lobs.result /\ lobs.token # "")
    => (/\ settings.user_token = ""
        /\ settings.last_login_time = 0
        /\ disk = settings)

\* C18: no exception escapes on_login_finished: for every reply it returns
\* normally, with a status text for the outcome and the login button enabled.
C18_ReplyHandlerNeverRaises ==
    lobs.op = "login_finished"
    => (~lobs.raised /\ login_button /\ status_label # "logging_in")

\* C19: the login button is disabled whenever a login request is outstanding,
\* so at most one request is in flight.
C19_LoginRequestsSerialized ==
    /\ inflight > 0 => ~login_button
    /\ inflight <= 1

\* C20: a stored token of a login at time t is valid at every time now with
\* t <= now <= t + ConfiguredTTL, whatever happened before the login.
C20_LoginValidForConfiguredTTL ==
    (/\ lobs.op = "check_token"
     /\ lobs.token # ""
     /\ lobs.last_login_time <= lobs.now
     /\ lobs.now <= lobs.last_login_time + ConfiguredTTL)
    => lobs.result

=============================================================================
